---- MODULE Spec2Model ----
(***************************************************************************)
(* Model of the common Epson S1D135xx primitives (epson-s1d135xx.c).       *)
(*                                                                         *)
(* The driver is single threaded.  Each statement of a function is one     *)
(* action; pc is the statement about to run, stack the return labels of    *)
(* the calls in flight.  A call is taken by the statement that reaches it  *)
(* (pc moves to the callee's first statement and the label of the          *)
(* statement after the call is pushed); "return f(p)" is a jump to f that  *)
(* pushes nothing.  The chip, the transport, the GPIO port and the file    *)
(* system are the environment: what they answer is chosen with \E.         *)
(***************************************************************************)
EXTENDS Integers, Sequences, FiniteSets, TLC

(* ------------------------------------------------------------------------ *)
(* constants of the driver                                                  *)

S1D135XX_XMASK == 511
S1D135XX_YMASK == 1023
S1D135XX_HRDY_TIMEOUT == 3000
S1D135XX_INIT_CODE_CHECKSUM_OK == 32768

S1D135XX_CMD_INIT_SET == 0
S1D135XX_CMD_RUN == 2
S1D135XX_CMD_STBY == 4
S1D135XX_CMD_SLEEP == 5
S1D135XX_CMD_INIT_STBY == 6
S1D135XX_CMD_READ_REG == 16
S1D135XX_CMD_WRITE_REG == 17
S1D135XX_CMD_WAIT_DSPE_TRG == 40
S1D135XX_CMD_WAIT_DSPE_FREND == 41
S1D135XX_CMD_UPDATE_FULL == 51
S1D135XX_CMD_UPDATE_FULL_AREA == 52
S1D135XX_CMD_EPD_GDRV_CLR == 55

(* declared in headers that are not part of the sources at hand *)
S1D135XX_REG_SOFTWARE_RESET == 8
S1D135XX_REG_SYSTEM_STATUS == 10
S1D135XX_REG_SEQ_AUTOBOOT_CMD == 680
PL_EPDC_RUN == 0
PL_EPDC_STANDBY == 1
PL_EPDC_SLEEP == 2
PL_EPDC_OFF == 3
PL_GPIO_NONE == "none"
S1D13541_STATUS_HRDY == 8192

(* ------------------------------------------------------------------------ *)
(* bounds of the exploration                                                *)

\* most parameter words the caller passes to s1d135xx_cmd
MaxRawParams == 2

(* ------------------------------------------------------------------------ *)
(* 16-bit arithmetic                                                        *)

U16(x) == x % 65536

RECURSIVE BitAnd(_, _)
BitAnd(a, b) ==
    IF a = 0 \/ b = 0 THEN 0
    ELSE (a % 2) * (b % 2) + 2 * BitAnd(a \div 2, b \div 2)

bswap16(v) == (v % 256) * 256 + (v \div 256)

\* byte order of the host the driver is built for: "little" (the MSP430) or
\* "big"
VARIABLE host

\* the two bytes of a uint16_t in memory, lowest address first
MemBytes(v) ==
    IF host = "little" THEN <<v % 256, v \div 256>>
    ELSE <<v \div 256, v % 256>>

\* the uint16_t whose two bytes in memory are b, lowest address first
MemWord(b) ==
    IF host = "little" THEN b[1] + 256 * b[2]
    ELSE b[1] * 256 + b[2]

htobe16(v) == IF host = "little" THEN bswap16(v) ELSE v
be16toh(v) == IF host = "little" THEN bswap16(v) ELSE v

\* the 16-bit word a receiver that takes the first byte as the most
\* significant one sees
WireWord(b) == b[1] * 256 + b[2]

\* the macro without its mask: ((_wf) << 8)
S1D135XX_WF_MODE_unmasked(wf) == U16(wf * 256)

S1D135XX_WF_MODE(wf) == BitAnd(U16(wf * 256), 3840)

pwr_cmds == <<S1D135XX_CMD_RUN, S1D135XX_CMD_STBY, S1D135XX_CMD_SLEEP>>

\* a uint8_t read past the end of pwr_cmds: whatever the linker placed there
OutOfBoundsBytes == {0, 255}

\* pwr_cmds[state]: the array element, or for an index outside the array any
\* byte
pwr_cmds_at(i) ==
    IF i \in 0..(Len(pwr_cmds) - 1) THEN {pwr_cmds[i + 1]}
    ELSE OutOfBoundsBytes

(* ------------------------------------------------------------------------ *)
(* state                                                                    *)

VARIABLES
    pc,           \* statement about to run; "idle": no operation in flight
    stack,        \* return labels of the calls in flight, innermost first
    ret,          \* value returned by the function that returned last
    op,           \* the public operation called last: [fn, arg]
    data,         \* p->data pin assignment and p->hrdy_mask / hrdy_result
    power_state,  \* power state remembered for the chip
    cs,           \* level of the chip-select line (0 asserted, 1 deasserted)
    ev,           \* what the statement that ran last did on bus, pins, clock
    log,          \* the events of the operation in flight, in order; of a
                  \* wait_idle call, which may evaluate readiness 3000
                  \* times, the first evaluation and the result
    timeout,      \* wait_idle: local "timeout"
    evals,        \* wait_idle: readiness evaluations made by the call so far
    nrdy,         \* wait_idle: evaluations of the call that observed ready
    nwait,        \* wait_idle calls made by the operation in flight
    state,        \* set_power_state: argument "state"
    params,       \* send_params: the words still to send
    reg,          \* read_reg: argument "reg"
    val,          \* read_reg: local "val", as bytes in memory
    stat,         \* load_init_code: local "stat"
    checksum,     \* load_init_code: local "checksum"
    file,         \* load_init_code: init_code_file, "open" or "closed"
    spi,          \* the transport: "reliable", or "unreliable" when
                  \* spi_write_bytes / spi_read_bytes may report an error
    xfer_err      \* a transfer of the operation in flight reported an error

vars == <<pc, stack, ret, op, data, power_state, cs, ev, log, timeout, evals,
          nrdy, nwait, state, params, reg, val, stat, checksum, file, spi,
          xfer_err, host>>

ctx == <<data, power_state, spi, host>>
wi == <<timeout, evals, nrdy, nwait>>
loc == <<state, params, reg, val, stat, checksum, file>>

Ev(k, v) == [k |-> k, v |-> v]
NoEv == Ev("none", 0)

Record(k, v) ==
    /\ ev' = Ev(k, v)
    /\ log' = IF evals <= 1 THEN Append(log, Ev(k, v)) ELSE log

\* the statement does k/v on a pin, the clock or the file
Emit(k, v) == Record(k, v) /\ xfer_err' = xfer_err

\* what spi_write_bytes and spi_read_bytes may return
SpiResults == IF spi = "reliable" THEN {0} ELSE {0, -1}

\* the statement transfers k/v over the transport; no caller in the driver
\* looks at what the transfer returns
Transfer(k, v) ==
    /\ Record(k, v)
    /\ \E r \in SpiResults : xfer_err' = (xfer_err \/ r # 0)

Silent == ev' = NoEv /\ log' = log /\ xfer_err' = xfer_err

Goto(l) == pc' = l /\ stack' = stack
Call(entry, back) == pc' = entry /\ stack' = <<back>> \o stack
Return == pc' = Head(stack) /\ stack' = Tail(stack)

(* ------------------------------------------------------------------------ *)
(* the environment's answers                                                *)

Boards ==
    { [reset |-> "pin", hrdy |-> "pin",
       hrdy_mask |-> S1D13541_STATUS_HRDY, hrdy_result |-> S1D13541_STATUS_HRDY],
      [reset |-> PL_GPIO_NONE, hrdy |-> PL_GPIO_NONE,
       hrdy_mask |-> S1D13541_STATUS_HRDY, hrdy_result |-> S1D13541_STATUS_HRDY] }

InitPowerStates == {PL_EPDC_RUN}

\* the two bytes a 16-bit transport read may deliver, first byte first
ReadBytes == { <<32, 0>>, <<128, 0>> }

PinLevels == {0, 1}

Start ==
    /\ pc = "idle"
    /\ stack = <<>>
    /\ ret = 0
    /\ op = [fn |-> "none", arg |-> <<>>]
    /\ data \in Boards
    /\ power_state \in InitPowerStates
    /\ cs = 1
    /\ ev = NoEv
    /\ log = <<>>
    /\ timeout = 0
    /\ evals = 0
    /\ nrdy = 0
    /\ nwait = 0
    /\ state = PL_EPDC_OFF
    /\ params = <<>>
    /\ reg = 0
    /\ val = <<0, 0>>
    /\ stat = 0
    /\ checksum = 0
    /\ file = "closed"
    /\ xfer_err = FALSE

\* the driver on the MSP430; the transport never reports an error
Init == Start /\ spi = "reliable" /\ host = "little"

\* the transport may report an error on any transfer
FaultInit == Start /\ spi = "unreliable" /\ host = "little"

(* ------------------------------------------------------------------------ *)
(* private functions                                                        *)

\* set_cs(p, level)
set_cs(level) == cs' = level /\ Emit("cs", level)

\* send_cmd(p, cmd)
send_cmd(cmd) == Transfer("cmd", WireWord(MemBytes(htobe16(cmd)))) /\ cs' = cs

\* the word written as it lies in memory: param = htobe16(param) left out
send_param_no_swap(param) ==
    Transfer("par", WireWord(MemBytes(param))) /\ cs' = cs

\* send_param(param)
send_param(param) == Transfer("par", WireWord(MemBytes(htobe16(param)))) /\ cs' = cs

\* send_params(params, n): one word per step, then on to "next"
send_params(at, next) ==
    /\ pc = at
    /\ IF params = <<>>
       THEN /\ Goto(next)
            /\ Silent
            /\ UNCHANGED <<cs, params>>
       ELSE /\ send_param(Head(params))
            /\ params' = Tail(params)
            /\ Goto(IF Tail(params) = <<>> THEN next ELSE at)
    /\ UNCHANGED <<ret, op, ctx, wi, state, reg, val, stat, checksum, file>>

\* the status register read whether or not a HRDY pin is configured
get_hrdy_always_polls ==
    /\ pc = "gh_entry"
    /\ reg' = S1D135XX_REG_SYSTEM_STATUS
    /\ Call("rr_cs0", "gh_status")
    /\ Silent
    /\ UNCHANGED <<ret, nrdy, op, ctx, cs, timeout, evals, nwait, state,
                   params, val, stat, checksum, file>>

\* get_hrdy: the pin, or the call of read_reg(SYSTEM_STATUS)
get_hrdy ==
    /\ pc = "gh_entry"
    /\ IF data.hrdy # PL_GPIO_NONE
       THEN /\ \E level \in PinLevels :
                 /\ ret' = level
                 /\ nrdy' = IF level # 0 THEN nrdy + 1 ELSE nrdy
            /\ Emit("hrdy", 0)
            /\ Return
            /\ reg' = reg
       ELSE /\ reg' = S1D135XX_REG_SYSTEM_STATUS
            /\ Call("rr_cs0", "gh_status")
            /\ Silent
            /\ UNCHANGED <<ret, nrdy>>
    /\ UNCHANGED <<op, ctx, cs, timeout, evals, nwait, state, params, val,
                   stat, checksum, file>>

\* get_hrdy: return ((status & p->hrdy_mask) == p->hrdy_result)
get_hrdy_status ==
    /\ pc = "gh_status"
    /\ LET rdy == IF BitAnd(ret, data.hrdy_mask) = data.hrdy_result
                  THEN 1 ELSE 0
       IN  /\ ret' = rdy
           /\ nrdy' = IF rdy # 0 THEN nrdy + 1 ELSE nrdy
    /\ Return
    /\ Silent
    /\ UNCHANGED <<op, ctx, cs, timeout, evals, nwait, loc>>

(* ------------------------------------------------------------------------ *)
(* s1d135xx_wait_idle                                                       *)

\* unsigned timeout = S1D135XX_HRDY_TIMEOUT; first evaluation of the loop
\* condition calls get_hrdy
wait_idle_entry ==
    /\ pc = "wi_entry"
    /\ timeout' = S1D135XX_HRDY_TIMEOUT
    /\ evals' = 1
    /\ nrdy' = 0
    /\ nwait' = nwait + 1
    /\ ev' = Ev("wait_idle", 0)
    /\ log' = Append(log, Ev("wait_idle", 0))
    /\ xfer_err' = xfer_err
    /\ Call("gh_entry", "wi_test")
    /\ UNCHANGED <<ret, op, ctx, cs, loc>>

\* the loop condition written with a post-decrement:
\* while (!get_hrdy(p) && timeout--)
wait_idle_test_postdec ==
    /\ pc = "wi_test"
    /\ IF ret # 0
       THEN /\ timeout' = timeout
            /\ Goto("wi_check")
       ELSE /\ timeout' = U16(timeout - 1)
            /\ IF timeout # 0 THEN Goto("wi_delay") ELSE Goto("wi_check")
    /\ Silent
    /\ UNCHANGED <<ret, op, ctx, cs, evals, nrdy, nwait, loc>>

\* the loop condition without the countdown: while (!get_hrdy(p))
wait_idle_test_unbounded ==
    /\ pc = "wi_test"
    /\ timeout' = timeout
    /\ IF ret # 0 THEN Goto("wi_check") ELSE Goto("wi_delay")
    /\ Silent
    /\ UNCHANGED <<ret, op, ctx, cs, evals, nrdy, nwait, loc>>

\* while (!get_hrdy(p) && --timeout)
wait_idle_test ==
    /\ pc = "wi_test"
    /\ IF ret # 0
       THEN /\ timeout' = timeout
            /\ Goto("wi_check")
       ELSE /\ timeout' = timeout - 1
            /\ IF timeout - 1 # 0 THEN Goto("wi_delay") ELSE Goto("wi_check")
    /\ Silent
    /\ UNCHANGED <<ret, op, ctx, cs, evals, nrdy, nwait, loc>>

\* mdelay(1); then the loop condition again
wait_idle_delay ==
    /\ pc = "wi_delay"
    /\ ev' = Ev("mdelay", 1)
    /\ log' = log
    /\ xfer_err' = xfer_err
    /\ evals' = evals + 1
    /\ Call("gh_entry", "wi_test")
    /\ UNCHANGED <<ret, op, ctx, cs, timeout, nrdy, nwait, loc>>

\* if (!timeout) return -1; return 0;
wait_idle_return ==
    /\ pc = "wi_check"
    /\ ret' = IF timeout = 0 THEN -1 ELSE 0
    /\ timeout' = 0
    /\ evals' = 0
    /\ nrdy' = 0
    /\ ev' = Ev("wait_idle_ret", ret')
    /\ log' = Append(log, Ev("wait_idle_ret", ret'))
    /\ xfer_err' = xfer_err
    /\ Return
    /\ UNCHANGED <<op, ctx, cs, nwait, loc>>

(* ------------------------------------------------------------------------ *)
(* register access and raw commands                                         *)

\* s1d135xx_read_reg: set_cs(p, 0)
read_reg_cs0 ==
    /\ pc = "rr_cs0"
    /\ set_cs(0)
    /\ Goto("rr_cmd")
    /\ UNCHANGED <<ret, op, ctx, wi, loc>>

\* send_cmd(p, S1D135XX_CMD_READ_REG)
read_reg_cmd ==
    /\ pc = "rr_cmd"
    /\ send_cmd(S1D135XX_CMD_READ_REG)
    /\ Goto("rr_param")
    /\ UNCHANGED <<ret, op, ctx, wi, loc>>

\* send_param(reg)
read_reg_param ==
    /\ pc = "rr_param"
    /\ send_param(reg)
    /\ Goto("rr_read1")
    /\ UNCHANGED <<ret, op, ctx, wi, loc>>

\* spi_read_bytes((uint8_t *)&val, sizeof(uint16_t)), first and second; the
\* log keeps the word read, except of the status polls of wait_idle
read_reg_read ==
    /\ pc \in {"rr_read1", "rr_read2"}
    /\ \E b \in ReadBytes :
         /\ val' = b
         /\ Transfer("read", IF evals = 0 THEN WireWord(b) ELSE 0)
    /\ cs' = cs
    /\ Goto(IF pc = "rr_read1" THEN "rr_read2" ELSE "rr_cs1")
    /\ UNCHANGED <<ret, op, ctx, wi, state, params, reg, stat, checksum, file>>

\* the word returned as it lies in memory: set_cs(p, 1); return val
read_reg_cs1_no_conversion ==
    /\ pc = "rr_cs1"
    /\ set_cs(1)
    /\ ret' = MemWord(val)
    /\ Return
    /\ UNCHANGED <<op, ctx, wi, loc>>

\* set_cs(p, 1); return be16toh(val)
read_reg_cs1 ==
    /\ pc = "rr_cs1"
    /\ set_cs(1)
    /\ ret' = be16toh(MemWord(val))
    /\ Return
    /\ UNCHANGED <<op, ctx, wi, loc>>

\* s1d135xx_write_reg: set_cs(p, 0)
write_reg_cs0 ==
    /\ pc = "wr_cs0"
    /\ set_cs(0)
    /\ Goto("wr_cmd")
    /\ UNCHANGED <<ret, op, ctx, wi, loc>>

\* send_cmd(p, S1D135XX_CMD_WRITE_REG)
write_reg_cmd ==
    /\ pc = "wr_cmd"
    /\ send_cmd(S1D135XX_CMD_WRITE_REG)
    /\ Goto("wr_params")
    /\ UNCHANGED <<ret, op, ctx, wi, loc>>

\* send_params(params, ARRAY_SIZE(params))
write_reg_params == send_params("wr_params", "wr_cs1")

\* set_cs(p, 1); the function returns nothing
write_reg_cs1 ==
    /\ pc = "wr_cs1"
    /\ set_cs(1)
    /\ Return
    /\ UNCHANGED <<ret, op, ctx, wi, loc>>

\* s1d135xx_cmd: set_cs(p, 0)
cmd_cs0 ==
    /\ pc = "cm_cs0"
    /\ set_cs(0)
    /\ Goto("cm_cmd")
    /\ UNCHANGED <<ret, op, ctx, wi, loc>>

\* send_cmd(p, cmd)
cmd_cmd ==
    /\ pc = "cm_cmd"
    /\ send_cmd(op.arg[1])
    /\ Goto("cm_params")
    /\ UNCHANGED <<ret, op, ctx, wi, loc>>

\* send_params(params, n)
cmd_params == send_params("cm_params", "cm_cs1")

\* set_cs(p, 1); the function returns nothing
cmd_cs1 ==
    /\ pc = "cm_cs1"
    /\ set_cs(1)
    /\ Return
    /\ UNCHANGED <<ret, op, ctx, wi, loc>>

(* ------------------------------------------------------------------------ *)
(* s1d135xx_set_power_state                                                 *)

\* the OFF request recorded as the new power state before returning
set_power_state_entry_records_off ==
    /\ pc = "sps_entry"
    /\ IF state = PL_EPDC_OFF
       THEN ret' = 0 /\ Return /\ power_state' = state
       ELSE ret' = ret /\ Call("wi_entry", "sps_cs0")
              /\ power_state' = power_state
    /\ Silent
    /\ UNCHANGED <<op, data, spi, host, cs, wi, loc>>

\* if (state == PL_EPDC_OFF) return 0; then the first wait_idle
set_power_state_entry ==
    /\ pc = "sps_entry"
    /\ IF state = PL_EPDC_OFF
       THEN ret' = 0 /\ Return
       ELSE ret' = ret /\ Call("wi_entry", "sps_cs0")
    /\ Silent
    /\ UNCHANGED <<op, ctx, cs, wi, loc>>

\* the result of the first wait_idle dropped: s1d135xx_wait_idle(p);
\* set_cs(p, 0)
set_power_state_cs0_unchecked ==
    /\ pc = "sps_cs0"
    /\ Goto("sps_cmd")
    /\ set_cs(0)
    /\ UNCHANGED <<ret, op, ctx, wi, loc>>

\* if (s1d135xx_wait_idle(p)) return -1; set_cs(p, 0)
set_power_state_cs0 ==
    /\ pc = "sps_cs0"
    /\ IF ret # 0
       THEN ret' = -1 /\ Return /\ Silent /\ cs' = cs
       ELSE ret' = ret /\ Goto("sps_cmd") /\ set_cs(0)
    /\ UNCHANGED <<op, ctx, wi, loc>>

\* send_cmd(p, pwr_cmds[state])
set_power_state_cmd ==
    /\ pc = "sps_cmd"
    /\ \E c \in pwr_cmds_at(state) : send_cmd(c)
    /\ Goto("sps_cs1")
    /\ UNCHANGED <<ret, op, ctx, wi, loc>>

\* the requested state stored as the remembered one once the command is out,
\* before the second wait_idle has succeeded
set_power_state_cs1_records_state ==
    /\ pc = "sps_cs1"
    /\ set_cs(1)
    /\ power_state' = state
    /\ Goto("wi_entry")
    /\ UNCHANGED <<ret, op, data, spi, host, wi, loc>>

\* set_cs(p, 1); return s1d135xx_wait_idle(p)
set_power_state_cs1 ==
    /\ pc = "sps_cs1"
    /\ set_cs(1)
    /\ Goto("wi_entry")
    /\ UNCHANGED <<ret, op, ctx, wi, loc>>

(* ------------------------------------------------------------------------ *)
(* s1d135xx_init_gate_drv                                                   *)

\* the result of set_power_state dropped:
\* s1d135xx_set_power_state(p, PL_EPDC_RUN); set_cs(p, 0)
init_gate_drv_cs0_unchecked ==
    /\ pc = "igd_cs0"
    /\ Goto("igd_cmd")
    /\ set_cs(0)
    /\ UNCHANGED <<ret, op, ctx, wi, loc>>

\* if (s1d135xx_set_power_state(p, PL_EPDC_RUN)) return -1; set_cs(p, 0)
init_gate_drv_cs0 ==
    /\ pc = "igd_cs0"
    /\ IF ret # 0
       THEN ret' = -1 /\ Return /\ Silent /\ cs' = cs
       ELSE ret' = ret /\ Goto("igd_cmd") /\ set_cs(0)
    /\ UNCHANGED <<op, ctx, wi, loc>>

\* send_cmd(p, S1D135XX_CMD_EPD_GDRV_CLR)
init_gate_drv_cmd ==
    /\ pc = "igd_cmd"
    /\ send_cmd(S1D135XX_CMD_EPD_GDRV_CLR)
    /\ Goto("igd_cs1")
    /\ UNCHANGED <<ret, op, ctx, wi, loc>>

\* the final wait left out: set_cs(p, 1); return 0
init_gate_drv_cs1_no_wait ==
    /\ pc = "igd_cs1"
    /\ set_cs(1)
    /\ ret' = 0
    /\ Return
    /\ UNCHANGED <<op, ctx, wi, loc>>

\* set_cs(p, 1); return s1d135xx_wait_idle(p)
init_gate_drv_cs1 ==
    /\ pc = "igd_cs1"
    /\ set_cs(1)
    /\ Goto("wi_entry")
    /\ UNCHANGED <<ret, op, ctx, wi, loc>>

(* ------------------------------------------------------------------------ *)
(* s1d135xx_wait_dspe_trig, s1d135xx_wait_update_end                        *)

\* set_cs(p, 0)
wait_dspe_trig_cs0 ==
    /\ pc = "wdt_cs0"
    /\ set_cs(0)
    /\ Goto("wdt_cmd")
    /\ UNCHANGED <<ret, op, ctx, wi, loc>>

\* send_cmd(p, S1D135XX_CMD_WAIT_DSPE_TRG)
wait_dspe_trig_cmd ==
    /\ pc = "wdt_cmd"
    /\ send_cmd(S1D135XX_CMD_WAIT_DSPE_TRG)
    /\ Goto("wdt_cs1")
    /\ UNCHANGED <<ret, op, ctx, wi, loc>>

\* set_cs(p, 1); return s1d135xx_wait_idle(p)
wait_dspe_trig_cs1 ==
    /\ pc = "wdt_cs1"
    /\ set_cs(1)
    /\ Goto("wi_entry")
    /\ UNCHANGED <<ret, op, ctx, wi, loc>>

\* set_cs(p, 0)
wait_update_end_cs0 ==
    /\ pc = "wue_cs0"
    /\ set_cs(0)
    /\ Goto("wue_cmd")
    /\ UNCHANGED <<ret, op, ctx, wi, loc>>

\* the trigger command sent in place of the frame-end command
wait_update_end_cmd_trg ==
    /\ pc = "wue_cmd"
    /\ send_cmd(S1D135XX_CMD_WAIT_DSPE_TRG)
    /\ Goto("wue_cs1")
    /\ UNCHANGED <<ret, op, ctx, wi, loc>>

\* send_cmd(p, S1D135XX_CMD_WAIT_DSPE_FREND)
wait_update_end_cmd ==
    /\ pc = "wue_cmd"
    /\ send_cmd(S1D135XX_CMD_WAIT_DSPE_FREND)
    /\ Goto("wue_cs1")
    /\ UNCHANGED <<ret, op, ctx, wi, loc>>

\* set_cs(p, 1); return s1d135xx_wait_idle(p)
wait_update_end_cs1 ==
    /\ pc = "wue_cs1"
    /\ set_cs(1)
    /\ Goto("wi_entry")
    /\ UNCHANGED <<ret, op, ctx, wi, loc>>

(* ------------------------------------------------------------------------ *)
(* s1d135xx_update, s1d135xx_update_area                                    *)

\* set_cs(p, 0)
update_cs0 ==
    /\ pc = "up_cs0"
    /\ set_cs(0)
    /\ Goto("up_cmd")
    /\ UNCHANGED <<ret, op, ctx, wi, loc>>

\* send_cmd(p, S1D135XX_CMD_UPDATE_FULL)
update_cmd ==
    /\ pc = "up_cmd"
    /\ send_cmd(S1D135XX_CMD_UPDATE_FULL)
    /\ Goto("up_param")
    /\ UNCHANGED <<ret, op, ctx, wi, loc>>

\* send_param(S1D135XX_WF_MODE(wfid))
update_param ==
    /\ pc = "up_param"
    /\ send_param(S1D135XX_WF_MODE(op.arg[1]))
    /\ Goto("up_cs1")
    /\ UNCHANGED <<ret, op, ctx, wi, loc>>

\* set_cs(p, 1); then the call of s1d135xx_wait_idle
update_cs1 ==
    /\ pc = "up_cs1"
    /\ set_cs(1)
    /\ Call("wi_entry", "up_test")
    /\ UNCHANGED <<ret, op, ctx, wi, loc>>

\* the result of the first wait_idle dropped
update_test_unchecked ==
    /\ pc = "up_test"
    /\ Goto("wdt_cs0")
    /\ Silent
    /\ UNCHANGED <<ret, op, ctx, cs, wi, loc>>

\* if (s1d135xx_wait_idle(p)) return -1; return s1d135xx_wait_dspe_trig(p)
update_test ==
    /\ pc = "up_test"
    /\ IF ret # 0
       THEN ret' = -1 /\ Return
       ELSE ret' = ret /\ Goto("wdt_cs0")
    /\ Silent
    /\ UNCHANGED <<op, ctx, cs, wi, loc>>

\* the horizontal and the vertical mask exchanged
update_area_params_swapped(wfid, area) ==
    << S1D135XX_WF_MODE(wfid),
       BitAnd(U16(area[1]), S1D135XX_YMASK),
       BitAnd(U16(area[2]), S1D135XX_XMASK),
       BitAnd(U16(area[3]), S1D135XX_YMASK),
       BitAnd(U16(area[4]), S1D135XX_XMASK) >>

\* const uint16_t params[] = { WF_MODE(wfid), left & XMASK, top & YMASK,
\*                             width & XMASK, height & YMASK }
update_area_params(wfid, area) ==
    << S1D135XX_WF_MODE(wfid),
       BitAnd(U16(area[1]), S1D135XX_XMASK),
       BitAnd(U16(area[2]), S1D135XX_YMASK),
       BitAnd(U16(area[3]), S1D135XX_XMASK),
       BitAnd(U16(area[4]), S1D135XX_YMASK) >>

\* set_cs(p, 0)
update_area_cs0 ==
    /\ pc = "ua_cs0"
    /\ set_cs(0)
    /\ Goto("ua_cmd")
    /\ UNCHANGED <<ret, op, ctx, wi, loc>>

\* send_cmd(p, S1D135XX_CMD_UPDATE_FULL_AREA)
update_area_cmd ==
    /\ pc = "ua_cmd"
    /\ send_cmd(S1D135XX_CMD_UPDATE_FULL_AREA)
    /\ Goto("ua_params")
    /\ UNCHANGED <<ret, op, ctx, wi, loc>>

\* send_params(params, ARRAY_SIZE(params))
update_area_send == send_params("ua_params", "ua_cs1")

\* set_cs(p, 1); then the call of s1d135xx_wait_idle
update_area_cs1 ==
    /\ pc = "ua_cs1"
    /\ set_cs(1)
    /\ Call("wi_entry", "ua_test")
    /\ UNCHANGED <<ret, op, ctx, wi, loc>>

\* if (s1d135xx_wait_idle(p)) return -1; return s1d135xx_wait_dspe_trig(p)
update_area_test ==
    /\ pc = "ua_test"
    /\ IF ret # 0
       THEN ret' = -1 /\ Return
       ELSE ret' = ret /\ Goto("wdt_cs0")
    /\ Silent
    /\ UNCHANGED <<op, ctx, cs, wi, loc>>

(* ------------------------------------------------------------------------ *)
(* s1d135xx_load_init_code                                                  *)

\* what f_open and transfer_file may answer
FileResults == {0, -1}

\* if (f_open(&init_code_file, init_code_path, FA_READ) != FR_OK) return -1;
\* then the call of s1d135xx_wait_idle
load_init_code_open ==
    /\ pc = "lic_open"
    /\ \E fr \in FileResults :
         IF fr # 0
         THEN ret' = -1 /\ Return /\ file' = file
         ELSE ret' = ret /\ Call("wi_entry", "lic_cs0") /\ file' = "open"
    /\ Silent
    /\ UNCHANGED <<op, ctx, cs, wi, state, params, reg, val, stat, checksum>>

\* the result of the first wait_idle dropped: s1d135xx_wait_idle(p);
\* set_cs(p, 0)
load_init_code_cs0_unchecked ==
    /\ pc = "lic_cs0"
    /\ Goto("lic_cmd")
    /\ set_cs(0)
    /\ UNCHANGED <<ret, op, ctx, wi, loc>>

\* if (s1d135xx_wait_idle(p)) return -1; set_cs(p, 0)
load_init_code_cs0 ==
    /\ pc = "lic_cs0"
    /\ IF ret # 0
       THEN ret' = -1 /\ Return /\ Silent /\ cs' = cs
       ELSE ret' = ret /\ Goto("lic_cmd") /\ set_cs(0)
    /\ UNCHANGED <<op, ctx, wi, loc>>

\* send_cmd(p, S1D135XX_CMD_INIT_SET)
load_init_code_cmd ==
    /\ pc = "lic_cmd"
    /\ send_cmd(S1D135XX_CMD_INIT_SET)
    /\ Goto("lic_transfer")
    /\ UNCHANGED <<ret, op, ctx, wi, loc>>

\* stat = transfer_file(&init_code_file, 0, 0)
load_init_code_transfer ==
    /\ pc = "lic_transfer"
    /\ \E r \in FileResults : stat' = r
    /\ Emit("data", 0)
    /\ cs' = cs
    /\ Goto("lic_cs1")
    /\ UNCHANGED <<ret, op, ctx, wi, state, params, reg, val, checksum, file>>

\* an early return on a failed transfer, placed before set_cs(p, 1)
load_init_code_cs1_early_return ==
    /\ pc = "lic_cs1"
    /\ IF stat # 0
       THEN ret' = -1 /\ Return /\ Silent /\ cs' = cs
       ELSE ret' = ret /\ Goto("lic_close") /\ set_cs(1)
    /\ UNCHANGED <<op, ctx, wi, loc>>

\* set_cs(p, 1)
load_init_code_cs1 ==
    /\ pc = "lic_cs1"
    /\ set_cs(1)
    /\ Goto("lic_close")
    /\ UNCHANGED <<ret, op, ctx, wi, loc>>

\* f_close(&init_code_file); then the call of s1d135xx_wait_idle
load_init_code_close ==
    /\ pc = "lic_close"
    /\ file' = "closed"
    /\ Silent
    /\ Call("wi_entry", "lic_stat")
    /\ UNCHANGED <<ret, op, ctx, cs, wi, state, params, reg, val, stat, checksum>>

\* if (s1d135xx_wait_idle(p)) return -1; if (stat) return -1;
\* then the call of s1d135xx_read_reg(p, S1D135XX_REG_SEQ_AUTOBOOT_CMD)
load_init_code_stat ==
    /\ pc = "lic_stat"
    /\ IF ret # 0 \/ stat # 0
       THEN ret' = -1 /\ Return /\ reg' = reg
       ELSE /\ ret' = ret
            /\ reg' = S1D135XX_REG_SEQ_AUTOBOOT_CMD
            /\ Call("rr_cs0", "lic_checksum")
    /\ Silent
    /\ UNCHANGED <<op, ctx, cs, wi, state, params, val, stat, checksum, file>>

\* the checksum read but not tested
load_init_code_checksum_ignored ==
    /\ pc = "lic_checksum"
    /\ checksum' = ret
    /\ ret' = ret /\ Goto("lic_stby") /\ set_cs(0)
    /\ UNCHANGED <<op, ctx, wi, state, params, reg, val, stat, file>>

\* checksum = ...; if (!(checksum & S1D135XX_INIT_CODE_CHECKSUM_OK))
\* return -1; set_cs(p, 0)
load_init_code_checksum ==
    /\ pc = "lic_checksum"
    /\ checksum' = ret
    /\ IF BitAnd(ret, S1D135XX_INIT_CODE_CHECKSUM_OK) = 0
       THEN ret' = -1 /\ Return /\ Silent /\ cs' = cs
       ELSE ret' = ret /\ Goto("lic_stby") /\ set_cs(0)
    /\ UNCHANGED <<op, ctx, wi, state, params, reg, val, stat, file>>

\* send_cmd(p, S1D135XX_CMD_INIT_STBY)
load_init_code_stby ==
    /\ pc = "lic_stby"
    /\ send_cmd(S1D135XX_CMD_INIT_STBY)
    /\ Goto("lic_cs1b")
    /\ UNCHANGED <<ret, op, ctx, wi, loc>>

\* set_cs(p, 1)
load_init_code_cs1b ==
    /\ pc = "lic_cs1b"
    /\ set_cs(1)
    /\ Goto("lic_delay")
    /\ UNCHANGED <<ret, op, ctx, wi, loc>>

\* the settle delay left out: return s1d135xx_wait_idle(p) right away
load_init_code_delay_skipped ==
    /\ pc = "lic_delay"
    /\ Silent
    /\ cs' = cs
    /\ Goto("wi_entry")
    /\ UNCHANGED <<ret, op, ctx, wi, loc>>

\* mdelay(100); return s1d135xx_wait_idle(p)
load_init_code_delay ==
    /\ pc = "lic_delay"
    /\ Emit("mdelay", 100)
    /\ cs' = cs
    /\ Goto("wi_entry")
    /\ UNCHANGED <<ret, op, ctx, wi, loc>>

(* ------------------------------------------------------------------------ *)
(* s1d135xx_hard_reset                                                      *)

\* the pin driven without the test for PL_GPIO_NONE
hard_reset_low_unguarded ==
    /\ pc = "hr_entry"
    /\ Goto("hr_delay4") /\ Emit("reset", 0)
    /\ UNCHANGED <<ret, op, ctx, cs, wi, loc>>

\* if (p->data->reset == PL_GPIO_NONE) return; p->gpio->set(reset, 0)
hard_reset_low ==
    /\ pc = "hr_entry"
    /\ IF data.reset = PL_GPIO_NONE
       THEN Return /\ Silent
       ELSE Goto("hr_delay4") /\ Emit("reset", 0)
    /\ UNCHANGED <<ret, op, ctx, cs, wi, loc>>

\* mdelay(4)
hard_reset_delay4 ==
    /\ pc = "hr_delay4"
    /\ Emit("mdelay", 4)
    /\ Goto("hr_high")
    /\ UNCHANGED <<ret, op, ctx, cs, wi, loc>>

\* p->gpio->set(reset, 1)
hard_reset_high ==
    /\ pc = "hr_high"
    /\ Emit("reset", 1)
    /\ Goto("hr_delay10")
    /\ UNCHANGED <<ret, op, ctx, cs, wi, loc>>

\* mdelay(10); the function returns nothing
hard_reset_delay10 ==
    /\ pc = "hr_delay10"
    /\ Emit("mdelay", 10)
    /\ Return
    /\ UNCHANGED <<ret, op, ctx, cs, wi, loc>>

(* ------------------------------------------------------------------------ *)
(* calls of the public functions                                            *)

\* the arguments the caller passes
PowerStates == {PL_EPDC_RUN, PL_EPDC_STANDBY, PL_EPDC_SLEEP, PL_EPDC_OFF}
WfIds == {2, 18}
Areas == { <<1000, 10, 50, 60>>, <<-1, 1500, 513, 2047>> }
Regs == {S1D135XX_REG_SYSTEM_STATUS}
RegWrites == { <<320, 4660>> }
RawCmds ==
    { <<S1D135XX_CMD_WRITE_REG>> \o [i \in 1..n |-> 320 * i] :
        n \in 0..MaxRawParams }

\* values a caller may pass that are no power state, no command of enum
\* s1d135xx_cmd and no register address of the chip (registers sit at even
\* addresses)
InvalidPowerStates == {4}
InvalidCmds == {153}
InvalidRegs == {65535}

\* the caller calls fn(p, arg): nothing is in flight; the record of the
\* previous operation is dropped and the locals of the new call are fresh.
\* The one record kept is that of a successful update the caller follows up
\* with wait_update_end: the two calls are logged as one transaction, the
\* "return" event between them.
Invoke(fn, arg, entry, back) ==
    /\ pc = "idle"
    /\ log' = IF fn = "wait_update_end" /\ op.fn = "update" /\ ret = 0
              THEN Append(log, Ev("return", ret))
              ELSE <<>>
    /\ op' = [fn |-> fn, arg |-> arg]
    /\ pc' = entry
    /\ stack' = back \o <<"idle">>
    /\ ret' = 0
    /\ nwait' = 0
    /\ ev' = NoEv
    /\ val' = <<0, 0>>
    /\ stat' = 0
    /\ checksum' = 0
    /\ file' = "closed"
    /\ xfer_err' = FALSE
    /\ UNCHANGED <<ctx, cs, timeout, evals, nrdy>>

NoArgs == state' = PL_EPDC_OFF /\ params' = <<>> /\ reg' = 0

s1d135xx_hard_reset ==
    /\ Invoke("hard_reset", <<>>, "hr_entry", <<>>)
    /\ NoArgs

\* s1d135xx_write_reg(p, S1D135XX_REG_SOFTWARE_RESET, 0);
\* return s1d135xx_wait_idle(p)
s1d135xx_soft_reset ==
    /\ Invoke("soft_reset", <<>>, "wr_cs0", <<"wi_entry">>)
    /\ params' = <<S1D135XX_REG_SOFTWARE_RESET, 0>>
    /\ state' = PL_EPDC_OFF /\ reg' = 0

s1d135xx_load_init_code ==
    /\ Invoke("load_init_code", <<>>, "lic_open", <<>>)
    /\ NoArgs

\* if (s1d135xx_set_power_state(p, PL_EPDC_RUN)) ...
s1d135xx_init_gate_drv ==
    /\ Invoke("init_gate_drv", <<>>, "sps_entry", <<"igd_cs0">>)
    /\ state' = PL_EPDC_RUN
    /\ params' = <<>> /\ reg' = 0

s1d135xx_wait_dspe_trig ==
    /\ Invoke("wait_dspe_trig", <<>>, "wdt_cs0", <<>>)
    /\ NoArgs

s1d135xx_update ==
    /\ \E wfid \in WfIds : Invoke("update", <<wfid>>, "up_cs0", <<>>)
    /\ NoArgs

s1d135xx_update_area ==
    /\ \E wfid \in WfIds, area \in Areas :
         /\ Invoke("update_area", <<wfid>> \o area, "ua_cs0", <<>>)
         /\ params' = update_area_params(wfid, area)
    /\ state' = PL_EPDC_OFF /\ reg' = 0

s1d135xx_wait_update_end ==
    /\ Invoke("wait_update_end", <<>>, "wue_cs0", <<>>)
    /\ NoArgs

s1d135xx_set_power_state ==
    /\ \E s \in PowerStates \cup InvalidPowerStates :
         /\ Invoke("set_power_state", <<s>>, "sps_entry", <<>>)
         /\ state' = s
    /\ params' = <<>> /\ reg' = 0

s1d135xx_cmd ==
    /\ \E c \in RawCmds \cup {<<c>> : c \in InvalidCmds} :
         /\ Invoke("cmd", c, "cm_cs0", <<>>)
         /\ params' = Tail(c)
    /\ state' = PL_EPDC_OFF /\ reg' = 0

s1d135xx_read_reg ==
    /\ \E r \in Regs \cup InvalidRegs :
         /\ Invoke("read_reg", <<r>>, "rr_cs0", <<>>)
         /\ reg' = r
    /\ state' = PL_EPDC_OFF /\ params' = <<>>

\* const uint16_t params[] = { reg, val }
s1d135xx_write_reg ==
    /\ \E w \in RegWrites \cup {<<r, 0>> : r \in InvalidRegs} :
         /\ Invoke("write_reg", w, "wr_cs0", <<>>)
         /\ params' = w
    /\ state' = PL_EPDC_OFF /\ reg' = 0

(* ------------------------------------------------------------------------ *)
(* the driver                                                               *)

Next ==
    \/ s1d135xx_hard_reset \/ hard_reset_low \/ hard_reset_delay4
    \/ hard_reset_high \/ hard_reset_delay10
    \/ s1d135xx_soft_reset
    \/ s1d135xx_load_init_code \/ load_init_code_open \/ load_init_code_cs0
    \/ load_init_code_cmd \/ load_init_code_transfer \/ load_init_code_cs1
    \/ load_init_code_close \/ load_init_code_stat \/ load_init_code_checksum
    \/ load_init_code_stby \/ load_init_code_cs1b \/ load_init_code_delay
    \/ s1d135xx_init_gate_drv \/ init_gate_drv_cs0 \/ init_gate_drv_cmd
    \/ init_gate_drv_cs1
    \/ s1d135xx_wait_dspe_trig \/ wait_dspe_trig_cs0 \/ wait_dspe_trig_cmd
    \/ wait_dspe_trig_cs1
    \/ s1d135xx_update \/ update_cs0 \/ update_cmd \/ update_param
    \/ update_cs1 \/ update_test
    \/ s1d135xx_update_area \/ update_area_cs0 \/ update_area_cmd
    \/ update_area_send \/ update_area_cs1 \/ update_area_test
    \/ s1d135xx_wait_update_end \/ wait_update_end_cs0 \/ wait_update_end_cmd
    \/ wait_update_end_cs1
    \/ wait_idle_entry \/ wait_idle_test \/ wait_idle_delay \/ wait_idle_return
    \/ s1d135xx_set_power_state \/ set_power_state_entry
    \/ set_power_state_cs0 \/ set_power_state_cmd \/ set_power_state_cs1
    \/ s1d135xx_cmd \/ cmd_cs0 \/ cmd_cmd \/ cmd_params \/ cmd_cs1
    \/ s1d135xx_read_reg \/ read_reg_cs0 \/ read_reg_cmd \/ read_reg_param
    \/ read_reg_read \/ read_reg_cs1
    \/ s1d135xx_write_reg \/ write_reg_cs0 \/ write_reg_cmd
    \/ write_reg_params \/ write_reg_cs1
    \/ get_hrdy \/ get_hrdy_status

Spec == Init /\ [][Next]_vars

\* the driver on a transport that may report errors
FaultSpec == FaultInit /\ [][Next]_vars

(* ------------------------------------------------------------------------ *)
(* the word conversions on their own                                        *)

Hosts == {"little", "big"}
Words == 0..65535

WireInit == Start /\ spi = "reliable" /\ host \in Hosts

\* send_cmd(p, v) for any word v; the two bytes handed to spi_write_bytes
\* come back as those of a read
wire_send_cmd ==
    /\ pc = "idle"
    /\ \E v \in Words :
         /\ reg' = v
         /\ send_cmd(v)
         /\ val' = <<ev'.v \div 256, ev'.v % 256>>
    /\ pc' = "wire_sent"
    /\ UNCHANGED <<stack, ret, op, ctx, wi, state, params, stat, checksum,
                   file>>

\* send_param(v) for any word v; the two bytes handed to spi_write_bytes
\* come back as those of a read
wire_send_param ==
    /\ pc = "idle"
    /\ \E v \in Words :
         /\ reg' = v
         /\ send_param(v)
         /\ val' = <<ev'.v \div 256, ev'.v % 256>>
    /\ pc' = "wire_sent"
    /\ UNCHANGED <<stack, ret, op, ctx, wi, state, params, stat, checksum,
                   file>>

\* return be16toh(val), as s1d135xx_read_reg decodes what it read
wire_decode ==
    /\ pc = "wire_sent"
    /\ ret' = be16toh(MemWord(val))
    /\ pc' = "wire_done"
    /\ UNCHANGED <<stack, op, ctx, cs, ev, log, xfer_err, wi, loc>>

WireNext == wire_send_cmd \/ wire_send_param \/ wire_decode

WireSpec == WireInit /\ [][WireNext]_vars

TypeOK ==
    /\ cs \in {0, 1}
    /\ timeout \in 0..S1D135XX_HRDY_TIMEOUT
    /\ file \in {"open", "closed"}
    /\ spi \in {"reliable", "unreliable"}
    /\ host \in {"little", "big"}
    /\ xfer_err \in BOOLEAN

(* ------------------------------------------------------------------------ *)
(* reading the log                                                          *)

Cs(level) == Ev("cs", level)
Cmd(w) == Ev("cmd", w)
Par(w) == Ev("par", w)
WaitRet(r) == Ev("wait_idle_ret", r)

Idle(fn) == pc = "idle" /\ op.fn = fn

\* the log without what happened inside the wait_idle calls: each call is
\* left as its wait_idle_ret event
RECURSIVE Outline(_, _)
Outline(l, inwait) ==
    IF l = <<>> THEN <<>>
    ELSE LET e == Head(l) IN
         IF e.k = "wait_idle" THEN Outline(Tail(l), TRUE)
         ELSE IF e.k = "wait_idle_ret" THEN <<e>> \o Outline(Tail(l), FALSE)
         ELSE IF inwait THEN Outline(Tail(l), TRUE)
         ELSE <<e>> \o Outline(Tail(l), FALSE)

IsCmd(e) == e.k = "cmd"
CmdEvents(l) == SelectSeq(l, IsCmd)
CmdCodes(l) == [i \in 1..Len(CmdEvents(l)) |-> CmdEvents(l)[i].v]

\* every command word of l is the first word of a chip-select window that
\* holds no other command word
OwnWindows(l) ==
    /\ \A i \in 1..Len(l) : l[i].k = "cmd" => i > 1 /\ l[i - 1] = Cs(0)
    /\ \A i, j \in 1..Len(l) :
         (i < j /\ l[i].k = "cmd" /\ l[j].k = "cmd")
            => \E m \in i..j : l[m] = Cs(1)

(* ------------------------------------------------------------------------ *)
(* properties                                                               *)

\* C1 - chip-select bracketing: chip-select is asserted only while it is
\* deasserted and deasserted only while it is asserted, every command,
\* parameter and data word is sent while it is asserted, and it is
\* deasserted whenever no operation is in flight (every return of a public
\* operation, on success and on failure).
C1_ChipSelectBracketing ==
    /\ [](pc = "idle" => cs = 1)
    /\ [][ /\ (ev'.k = "cs" => ev'.v = 1 - cs /\ cs' = ev'.v)
           /\ (ev'.k # "cs" => cs' = cs)
           /\ (ev'.k \in {"cmd", "par", "data"} => cs = 0) ]_vars

\* load_init_code has returned failure after its INIT_SET window
C1_Witness ==
    /\ Idle("load_init_code")
    /\ ret = -1
    /\ Cmd(S1D135XX_CMD_INIT_SET) \in {log[i] : i \in 1..Len(log)}
    /\ cs = 1

\* C2 - wait_idle evaluates readiness at most 3000 times; once an evaluation
\* observes ready nothing is evaluated or delayed any more and the call
\* returns 0; it returns -1 exactly when 3000 evaluations all observed
\* not-ready.
C2_WaitIdleBound ==
    /\ [](/\ evals <= 3000
          /\ nrdy <= 1
          /\ (nrdy = 1 => pc \in {"wi_test", "wi_check"}))
    /\ [][pc = "wi_check" =>
            /\ ret' \in {0, -1}
            /\ (ret' = 0 <=> nrdy = 1)
            /\ (ret' = -1 <=> (nrdy = 0 /\ evals = 3000))]_vars

\* ready is first observed by the 3000th evaluation
C2_Witness == pc = "wi_check" /\ evals = 3000 /\ nrdy = 1

\* C3 - after set_power_state(s), s one of Run, Standby, Sleep, has returned
\* success the remembered power state is s.
C3_RememberedStateOnSuccess ==
    (/\ Idle("set_power_state")
     /\ op.arg[1] \in {PL_EPDC_RUN, PL_EPDC_STANDBY, PL_EPDC_SLEEP}
     /\ ret = 0)
        => power_state = op.arg[1]

\* the command word the claim names for a power state
C4_Code(s) ==
    CASE s = PL_EPDC_RUN -> 2
      [] s = PL_EPDC_STANDBY -> 4
      [] s = PL_EPDC_SLEEP -> 5

\* C4 - set_power_state for Run/Standby/Sleep: wait_idle, one window with
\* the one command word of the state (0x02, 0x04, 0x05) and no parameter,
\* wait_idle; when the first wait_idle times out nothing is transmitted and
\* the call fails, otherwise the result is that of the second wait_idle.
C4_SetPowerStateSequence ==
    (Idle("set_power_state")
       /\ op.arg[1] \in {PL_EPDC_RUN, PL_EPDC_STANDBY, PL_EPDC_SLEEP}) =>
        LET o == Outline(log, FALSE) IN
        \/ o = <<WaitRet(-1)>> /\ ret = -1
        \/ \E r \in {0, -1} :
              /\ o = <<WaitRet(0), Cs(0), Cmd(C4_Code(op.arg[1])), Cs(1),
                       WaitRet(r)>>
              /\ ret = r

\* set_power_state(Standby) has sent STBY and the second wait_idle timed out
C4_Witness ==
    /\ Idle("set_power_state")
    /\ op.arg = <<PL_EPDC_STANDBY>>
    /\ ret = -1
    /\ Cmd(4) \in {log[i] : i \in 1..Len(log)}

\* C5 - set_power_state(Off) returns success without a wait_idle, without
\* touching chip-select or the bus and without changing the remembered power
\* state; the remembered power state never becomes Off.
C5_OffIsNoOp ==
    /\ []((op.fn = "set_power_state" /\ op.arg = <<PL_EPDC_OFF>>) =>
            /\ log = <<>>
            /\ nwait = 0
            /\ cs = 1
            /\ (pc = "idle" => ret = 0))
    /\ [][ /\ (op'.fn = "set_power_state" /\ op'.arg = <<PL_EPDC_OFF>>)
                => power_state' = power_state
           /\ (power_state # PL_EPDC_OFF => power_state' # PL_EPDC_OFF) ]_vars

\* set_power_state(Off) has returned on a context that remembers a state
C5_Witness ==
    /\ Idle("set_power_state")
    /\ op.arg = <<PL_EPDC_OFF>>
    /\ ret = 0
    /\ power_state # PL_EPDC_OFF

\* the operation itself (not a wait_idle poll) has read SEQ_AUTOBOOT_CMD
ChecksumRead ==
    LET o == Outline(log, FALSE) IN
    \E i \in 1..(Len(o) - 1) :
        o[i] = Cmd(16) /\ o[i + 1] = Par(680) /\ pc \notin {"rr_param",
            "rr_read1", "rr_read2", "rr_cs1", "lic_checksum"}

\* C6 - load_init_code fails whenever the SEQ_AUTOBOOT_CMD value read after
\* the transfer has bit 15 clear, and then INIT_STBY is never transmitted.
C6_ChecksumFailure ==
    (op.fn = "load_init_code" /\ ChecksumRead
       /\ (checksum \div 32768) % 2 = 0) =>
        /\ pc = "idle"
        /\ ret = -1
        /\ \A i \in 1..Len(log) : log[i] # Cmd(6)

\* the transfer reported no error, both wait_idle calls succeeded and the
\* value read back has bit 15 clear
C6_Witness ==
    /\ Idle("load_init_code")
    /\ ChecksumRead
    /\ stat = 0
    /\ checksum = 8192
    /\ ret = -1

\* o starts with one chip-select window: command word code, then n parameters
Frame(o, code, n) ==
    /\ Len(o) >= n + 3
    /\ o[1] = Cs(0)
    /\ o[2] = Cmd(code)
    /\ \A i \in 3..(n + 2) : o[i].k = "par"
    /\ o[n + 3] = Cs(1)

\* the stages of update (code 0x33, one parameter) and update_area (code
\* 0x34, five parameters) after which the operation has returned ret
UpdateStages(code, n) ==
    LET o == Outline(log, FALSE) IN
    /\ Frame(o, code, n)
    /\ LET rest == SubSeq(o, n + 4, Len(o)) IN
       \/ rest = <<WaitRet(-1)>> /\ ret = -1
       \/ \E r \in {0, -1} :
             /\ rest = <<WaitRet(0), Cs(0), Cmd(40), Cs(1), WaitRet(r)>>
             /\ ret = r

\* C7 - update: one window with UPDATE_FULL (0x33) and one parameter,
\* wait_idle, one window with WAIT_DSPE_TRG (0x28) and no parameter,
\* wait_idle; a timeout of the first wait_idle fails the call and
\* WAIT_DSPE_TRG is not sent, otherwise the call succeeds exactly when the
\* second wait_idle does.  update_area: the same with UPDATE_FULL_AREA (0x34)
\* and five parameters.
C7_UpdateSequence ==
    /\ Idle("update") => UpdateStages(51, 1)
    /\ Idle("update_area") => UpdateStages(52, 5)

\* update_area has sent WAIT_DSPE_TRG and the second wait_idle timed out
C7_Witness ==
    /\ Idle("update_area")
    /\ ret = -1
    /\ Cmd(40) \in {log[i] : i \in 1..Len(log)}

\* wait_update_end has returned and was called right after a successful update
UpdateThenEnd ==
    /\ Idle("wait_update_end")
    /\ Ev("return", 0) \in {log[i] : i \in 1..Len(log)}

IsNotPoll(c) == c # 16

\* C8 as stated - on every context a successful update followed by
\* wait_update_end puts exactly the command codes 0x33, 0x28, 0x29 on the
\* bus, each in its own chip-select window.
C8_ExactlyThreeCommands ==
    UpdateThenEnd =>
        /\ CmdCodes(log) = <<51, 40, 41>>
        /\ OwnWindows(log)

\* C8 as amended - with a dedicated HRDY pin the command codes on the bus are
\* exactly 0x33, 0x28, 0x29; with register-polled readiness they are these
\* three in this order with READ_REG (0x10) status polls of wait_idle among
\* them; in both cases every command is in its own chip-select window.
C8_ThreeCommandsAndPolls ==
    UpdateThenEnd =>
        /\ OwnWindows(log)
        /\ SelectSeq(CmdCodes(log), IsNotPoll) = <<51, 40, 41>>
        /\ (data.hrdy # PL_GPIO_NONE => CmdCodes(log) = <<51, 40, 41>>)
        /\ (data.hrdy = PL_GPIO_NONE =>
              /\ Len(CmdCodes(log)) > 3
              /\ \A i \in 1..Len(log) :
                    log[i] = Cmd(16) => log[i + 1] = Par(10))

\* update then wait_update_end have both succeeded, readiness being polled
C8_Witness ==
    /\ UpdateThenEnd
    /\ ret = 0
    /\ data.hrdy = PL_GPIO_NONE

\* C9 - update_area never rejects an area: whatever left, top, width and
\* height are, the window is sent and holds after the waveform parameter
\* left & 0x1FF, top & 0x3FF, width & 0x1FF, height & 0x3FF in this order;
\* waveform 2 with {1000, 10, 50, 60} sends [0x0200, 488, 10, 50, 60].
C9_AreaMasking ==
    (op.fn = "update_area"
       /\ pc \notin {"ua_cs0", "ua_cmd", "ua_params", "ua_cs1"}) =>
        /\ Frame(log, 52, 5)
        /\ <<log[4].v, log[5].v, log[6].v, log[7].v>>
             = <<op.arg[2] % 512, op.arg[3] % 1024,
                 op.arg[4] % 512, op.arg[5] % 1024>>
        /\ (op.arg = <<2, 1000, 10, 50, 60>> =>
              SubSeq(log, 3, 7) = <<Par(512), Par(488), Par(10), Par(50),
                                    Par(60)>>)

\* update_area has returned for an area whose fields are all out of range
C9_Witness ==
    /\ Idle("update_area")
    /\ op.arg[2] \notin 0..511
    /\ op.arg[3] \notin 0..1023
    /\ op.arg[4] \notin 0..511
    /\ op.arg[5] \notin 0..1023

\* most statements one wait_idle call runs: per evaluation get_hrdy, the six
\* statements of read_reg, the comparison, the loop test and the delay
WaitSteps == 10 * 3000 + 11

\* most statements still to run from label l to the return of its function,
\* the functions it calls included
Weight(l) ==
    CASE l = "idle" -> 0
      [] l = "rr_cs1" -> 1
      [] l = "rr_read2" -> 2
      [] l = "rr_read1" -> 3
      [] l = "rr_param" -> 4
      [] l = "rr_cmd" -> 5
      [] l = "rr_cs0" -> 6
      [] l = "gh_status" -> 1
      [] l = "gh_entry" -> 8
      [] l = "wi_check" -> 1
      [] l = "wi_test" -> 10 * timeout + 2
      [] l = "wi_delay" -> 10 * timeout + 11
      [] l = "wi_entry" -> WaitSteps
      [] l \in {"wr_cs1", "cm_cs1"} -> 1
      [] l \in {"wr_params", "cm_params"} -> Len(params) + 2
      [] l \in {"wr_cmd", "cm_cmd"} -> Len(params) + 3
      [] l \in {"wr_cs0", "cm_cs0"} -> Len(params) + 4
      [] l \in {"sps_cs1", "igd_cs1", "wdt_cs1", "wue_cs1"} -> WaitSteps + 1
      [] l \in {"sps_cmd", "igd_cmd", "wdt_cmd", "wue_cmd"} -> WaitSteps + 2
      [] l \in {"sps_cs0", "igd_cs0", "wdt_cs0", "wue_cs0"} -> WaitSteps + 3
      [] l = "sps_entry" -> 2 * WaitSteps + 4
      [] l \in {"up_test", "ua_test"} -> WaitSteps + 4
      [] l \in {"up_cs1", "ua_cs1"} -> 2 * WaitSteps + 5
      [] l = "up_param" -> 2 * WaitSteps + 6
      [] l = "up_cmd" -> 2 * WaitSteps + 7
      [] l = "up_cs0" -> 2 * WaitSteps + 8
      [] l = "ua_params" -> 2 * WaitSteps + 6 + Len(params)
      [] l = "ua_cmd" -> 2 * WaitSteps + 7 + Len(params)
      [] l = "ua_cs0" -> 2 * WaitSteps + 8 + Len(params)
      [] l = "lic_delay" -> WaitSteps + 1
      [] l = "lic_cs1b" -> WaitSteps + 2
      [] l = "lic_stby" -> WaitSteps + 3
      [] l = "lic_checksum" -> WaitSteps + 4
      [] l = "lic_stat" -> WaitSteps + 11
      [] l = "lic_close" -> 2 * WaitSteps + 12
      [] l = "lic_cs1" -> 2 * WaitSteps + 13
      [] l = "lic_transfer" -> 2 * WaitSteps + 14
      [] l = "lic_cmd" -> 2 * WaitSteps + 15
      [] l = "lic_cs0" -> 2 * WaitSteps + 16
      [] l = "lic_open" -> 3 * WaitSteps + 17
      [] l = "hr_delay10" -> 1
      [] l = "hr_high" -> 2
      [] l = "hr_delay4" -> 3
      [] l = "hr_entry" -> 4

RECURSIVE StackWeight(_)
StackWeight(st) ==
    IF st = <<>> THEN 0 ELSE Weight(Head(st)) + StackWeight(Tail(st))

\* most statements the call in flight still runs before it returns
Rank == Weight(pc) + StackWeight(stack)

\* C10 - every call of a public operation returns, whatever the chip does:
\* while a call is in flight a statement can always run and every statement
\* run lowers Rank, a natural number, so the call returns after at most Rank
\* statements; it makes at most three wait_idle calls of at most 3000
\* readiness evaluations each.
C10_Termination ==
    /\ [](/\ nwait <= 3
          /\ evals <= 3000
          /\ Rank >= 0
          /\ (pc # "idle" => ENABLED Next))
    /\ [][pc # "idle" => Rank' < Rank]_vars

\* init_gate_drv has returned after its third wait_idle timed out
C10_Witness ==
    /\ Idle("init_gate_drv")
    /\ nwait = 3
    /\ ret = -1

\* the public functions that return an int: 0 on success, -1 on failure
IntOps ==
    {"soft_reset", "load_init_code", "init_gate_drv", "wait_dspe_trig",
     "update", "update_area", "wait_update_end", "set_power_state"}

\* C11 - a transport failure propagates: when a transfer of an operation
\* reported an error, the operation is one that reports a result and it
\* returns failure, never success or a register value.
C11_TransportFailurePropagates ==
    (pc = "idle" /\ xfer_err) => (op.fn \in IntOps /\ ret = -1)

\* the operations that call wait_idle
WaitingOps ==
    {"soft_reset", "load_init_code", "init_gate_drv", "set_power_state",
     "update", "update_area", "wait_update_end", "wait_dspe_trig"}

TimedOut == \E i \in 1..Len(log) : log[i] = WaitRet(-1)

\* C12 - an operation one of whose wait_idle calls timed out returns failure,
\* and no statement of an operation that waits changes the remembered power
\* state: it is after the call what it was before.
C12_TimeoutKeepsPowerState ==
    /\ []((pc = "idle" /\ op.fn \in WaitingOps /\ TimedOut) => ret = -1)
    /\ [][op'.fn \in WaitingOps => power_state' = power_state]_vars

\* load_init_code has returned after its last wait_idle, the one that follows
\* INIT_STBY, timed out
C12_Witness ==
    /\ Idle("load_init_code")
    /\ nwait = 3
    /\ TimedOut
    /\ ret = -1
    /\ power_state = PL_EPDC_RUN

\* what hard_reset does on a board with a reset pin
ResetPulse ==
    <<Ev("reset", 0), Ev("mdelay", 4), Ev("reset", 1), Ev("mdelay", 10)>>

\* C13 - hard_reset without a reset pin returns without any GPIO access and
\* without bus traffic; with a reset pin it drives the pin low, then high,
\* once each (4 ms and 10 ms delays after them), and in both cases makes no
\* readiness check and leaves chip-select alone.
C13_HardReset ==
    op.fn = "hard_reset" =>
        /\ cs = 1
        /\ nwait = 0
        /\ Len(log) <= 4
        /\ log = SubSeq(ResetPulse, 1, Len(log))
        /\ (data.reset = PL_GPIO_NONE => log = <<>>)
        /\ ((data.reset # PL_GPIO_NONE /\ pc = "idle") => log = ResetPulse)

\* hard_reset has returned on a board with a reset pin
C13_Witness ==
    /\ Idle("hard_reset")
    /\ data.reset # PL_GPIO_NONE
    /\ Len(log) = 4

\* the call in flight, or returned last, was given an identifier that is none
InvalidCall ==
    \/ op.fn = "set_power_state" /\ op.arg[1] \in InvalidPowerStates
    \/ op.fn = "cmd" /\ op.arg[1] \in InvalidCmds
    \/ op.fn \in {"read_reg", "write_reg"} /\ op.arg[1] \in InvalidRegs

IsWord(e) == e.k \in {"cmd", "par"}

\* C14 - a call given an unrecognized power state, command or register
\* identifier transmits no word of its own (only the status polls of
\* wait_idle) and returns failure.
C14_InvalidIdentifierReported ==
    InvalidCall =>
        /\ SelectSeq(Outline(log, FALSE), IsWord) = <<>>
        /\ (pc = "idle" => ret = -1)

\* C15 - for every 16-bit word v, on a little-endian and on a big-endian
\* host: send_cmd and send_param hand the transport two bytes, the most
\* significant byte of v first, and decoding these two bytes as read_reg
\* decodes what it read gives v back.
C15_WireRoundTrip ==
    /\ pc \in {"wire_sent", "wire_done"} =>
         /\ Len(val) = 2
         /\ val = <<reg \div 256, reg % 256>>
         /\ ev.k \in {"cmd", "par"}
         /\ ev.v = reg
    /\ pc = "wire_done" => ret = reg

\* the word 0x1234 has been sent as a parameter and decoded again on a
\* little-endian host
C15_Witness ==
    /\ pc = "wire_done"
    /\ host = "little"
    /\ reg = 4660
    /\ ev.k = "par"
    /\ val = <<18, 52>>
    /\ ret = 4660

InLog(e) == \E i \in 1..Len(log) : log[i] = e

\* the words a 16-bit transport read may deliver
ReadWords == {WireWord(b) : b \in ReadBytes}

\* the events of load_init_code up to the final wait_idle, the wait_idle
\* calls left as their results; w1 and w2 are the two words read back
InitCodeStages(w1, w2) ==
    <<WaitRet(0),
      Cs(0), Cmd(0), Ev("data", 0), Cs(1),
      WaitRet(0),
      Cs(0), Cmd(16), Par(680), Ev("read", w1), Ev("read", w2), Cs(1),
      Cs(0), Cmd(6), Cs(1),
      Ev("mdelay", 100)>>

\* C16 - a load_init_code that succeeds, and any that got as far as
\* INIT_STBY, did in this order: wait_idle; one window with INIT_SET (0x00)
\* and the blob; wait_idle; the read of SEQ_AUTOBOOT_CMD (0x2A8) in a window
\* of its own; one window with INIT_STBY (0x06) alone; the 100 ms delay; a
\* last wait_idle, whose result is the result of the call.
C16_InitCodeOrder ==
    Idle("load_init_code") =>
        /\ (ret = 0 => InLog(Cmd(6)))
        /\ (InLog(Cmd(6)) =>
              \E r \in {0, -1}, w1, w2 \in ReadWords :
                 /\ (w2 \div 32768) % 2 = 1
                 /\ Outline(log, FALSE)
                       = Append(InitCodeStages(w1, w2), WaitRet(r))
                 /\ ret = r)

\* load_init_code has succeeded
C16_Witness ==
    /\ Idle("load_init_code")
    /\ ret = 0
    /\ nwait = 3
    /\ file = "closed"

\* how a returned load_init_code went
OpenFailed == nwait = 0
IsWaitRet(e) == e.k = "wait_idle_ret"
WaitResults == SelectSeq(log, IsWaitRet)
FirstWaitTimedOut == Len(WaitResults) >= 1 /\ WaitResults[1] = WaitRet(-1)
SecondWaitTimedOut == Len(WaitResults) >= 2 /\ WaitResults[2] = WaitRet(-1)
TransferFailed == stat # 0

\* load_init_code fails without INIT_STBY when the open fails, the wait_idle
\* before or after the transfer times out, or the transfer reports an error;
\* INIT_SET is not sent when the open fails or the first wait_idle times out
InitCodeAborts ==
    /\ (OpenFailed \/ FirstWaitTimedOut \/ SecondWaitTimedOut
          \/ TransferFailed) => (ret = -1 /\ ~InLog(Cmd(6)))
    /\ (OpenFailed \/ FirstWaitTimedOut) => ~InLog(Cmd(0))

\* C17 as stated - the aborts above, and chip-select is never asserted when
\* the open fails or the first wait_idle times out.
C17_AbortsNeverSelecting ==
    Idle("load_init_code") =>
        /\ InitCodeAborts
        /\ (OpenFailed \/ FirstWaitTimedOut) => ~InLog(Cs(0))

\* C17 as amended - the aborts above; when the open fails or the first
\* wait_idle times out, chip-select is asserted by nothing but the
\* status-register polls of that wait_idle: not at all when the open fails
\* or a dedicated HRDY pin is configured.
C17_AbortsSelectingForPollsOnly ==
    /\ Idle("load_init_code") =>
         /\ InitCodeAborts
         /\ (OpenFailed => log = <<>>)
         /\ (FirstWaitTimedOut =>
               /\ \A i \in 1..Len(log) :
                     log[i] = Cs(0) => log[i + 1] = Cmd(16)
               /\ \A i \in 1..Len(log) :
                     log[i] = Cmd(16) => log[i + 1] = Par(10))
    /\ (op.fn = "load_init_code" /\ data.hrdy # PL_GPIO_NONE
          /\ ~InLog(Cmd(0)) /\ pc # "lic_cmd") => cs = 1

\* the first wait_idle of load_init_code has timed out polling the status
\* register
C17_Witness ==
    /\ Idle("load_init_code")
    /\ FirstWaitTimedOut
    /\ data.hrdy = PL_GPIO_NONE
    /\ InLog(Cs(0))
    /\ ret = -1

\* C18 - in soft_reset, load_init_code, set_power_state, init_gate_drv,
\* update, update_area, wait_dspe_trig and wait_update_end every command
\* frame of the operation (WRITE_REG of the software-reset register,
\* INIT_SET, INIT_STBY, RUN / STBY / SLEEP, EPD_GDRV_CLR, UPDATE_FULL,
\* UPDATE_FULL_AREA, WAIT_DSPE_TRG, WAIT_DSPE_FREND; not the register reads)
\* is followed, before any other command and before the return, by a
\* wait_idle, and the operation returns failure when that wait_idle timed
\* out.
C18_WaitAfterEveryFrame ==
    (pc = "idle" /\ op.fn \in WaitingOps) =>
        LET o == Outline(log, FALSE) IN
        \A i \in 1..Len(o) :
            (o[i].k = "cmd" /\ o[i].v # S1D135XX_CMD_READ_REG) =>
                \E j \in (i + 1)..Len(o) :
                    /\ o[j].k = "wait_idle_ret"
                    /\ \A m \in (i + 1)..(j - 1) :
                          o[m].k \notin {"cmd", "wait_idle_ret"}
                    /\ (o[j].v = -1 => ret = -1)

\* init_gate_drv has sent EPD_GDRV_CLR and the wait_idle after it timed out
C18_Witness ==
    /\ Idle("init_gate_drv")
    /\ InLog(Cmd(S1D135XX_CMD_EPD_GDRV_CLR))
    /\ Len(WaitResults) = 3
    /\ WaitResults[3] = WaitRet(-1)
    /\ ret = -1

\* the window of a command without parameters
Window(code) == <<Cs(0), Cmd(code), Cs(1)>>

\* C19 - init_gate_drv runs set_power_state(Run) first: wait_idle, the RUN
\* (0x02) window, wait_idle.  When either wait_idle times out it returns
\* failure and EPD_GDRV_CLR (0x37) is not sent; otherwise it sends
\* EPD_GDRV_CLR in a window of its own and returns the result of the
\* wait_idle that follows.
C19_GateDriverInit ==
    Idle("init_gate_drv") =>
        LET o == Outline(log, FALSE) IN
        \/ o = <<WaitRet(-1)>> /\ ret = -1
        \/ o = <<WaitRet(0)>> \o Window(2) \o <<WaitRet(-1)>> /\ ret = -1
        \/ \E r \in {0, -1} :
              /\ o = <<WaitRet(0)>> \o Window(2) \o <<WaitRet(0)>>
                       \o Window(55) \o <<WaitRet(r)>>
              /\ ret = r

\* init_gate_drv has succeeded
C19_Witness ==
    /\ Idle("init_gate_drv")
    /\ InLog(Cmd(55))
    /\ ret = 0

\* C20 - read_reg(reg) does, inside one chip-select window, READ_REG (0x10),
\* reg as the one parameter and two 16-bit reads; it returns the second word
\* read, first byte most significant, whatever the first word read was.
C20_ReadRegister ==
    Idle("read_reg") =>
        /\ \E w1, w2 \in ReadWords :
              /\ log = <<Cs(0), Cmd(16), Par(op.arg[1]), Ev("read", w1),
                         Ev("read", w2), Cs(1)>>
              /\ ret = w2
        /\ ret = val[1] * 256 + val[2]

\* read_reg has returned the second word read, which differs from the first
C20_Witness ==
    /\ Idle("read_reg")
    /\ Len(log) = 6
    /\ log[4] = Ev("read", 32768)
    /\ log[5] = Ev("read", 8192)
    /\ ret = 8192

\* the first parameter of the update or update_area in flight or returned
\* last has been sent
WaveformSent ==
    /\ op.fn \in {"update", "update_area"}
    /\ Len(log) >= 3
    /\ log[3].k = "par"

\* C21 as stated - for every waveform id the first parameter of update and
\* update_area has a zero low byte and the waveform id as its high byte.
C21_WaveformInHighByte ==
    WaveformSent =>
        /\ log[3].v % 256 = 0
        /\ log[3].v \div 256 = op.arg[1]

\* C21 as amended - the first parameter of update and update_area has a zero
\* low byte and the low four bits of the waveform id as its high byte: the
\* waveform id itself for the ids 0 to 15 (2 is sent as 0x0200).
C21_WaveformLowNibbleInHighByte ==
    WaveformSent =>
        /\ log[3].v % 256 = 0
        /\ log[3].v \div 256 = op.arg[1] % 16
        /\ (op.arg[1] \in 0..15 => log[3].v \div 256 = op.arg[1])
        /\ (op.arg[1] = 2 => log[3] = Par(512))

\* update has returned after sending waveform id 18 as 0x0200
C21_Witness ==
    /\ Idle("update")
    /\ op.arg = <<18>>
    /\ log[3] = Par(512)

\* a readiness evaluation of wait_idle is in progress
Evaluating ==
    pc \in {"gh_entry", "rr_cs0", "rr_cmd", "rr_param", "rr_read1",
            "rr_read2", "rr_cs1", "gh_status"} /\ evals >= 1

\* the statement that follows l within a status poll, and what it does
PollNext(l) ==
    CASE l = "rr_cs0" -> <<"rr_cmd", Cs(0)>>
      [] l = "rr_cmd" -> <<"rr_param", Cmd(16)>>
      [] l = "rr_param" -> <<"rr_read1", Par(10)>>
      [] l = "rr_read1" -> <<"rr_read2", Ev("read", 0)>>
      [] l = "rr_read2" -> <<"rr_cs1", Ev("read", 0)>>
      [] l = "rr_cs1" -> <<"gh_status", Cs(1)>>

\* C22 - with a HRDY pin every readiness evaluation of wait_idle is one read
\* of that pin: chip-select stays deasserted and nothing is transferred.
\* Without one every evaluation is one read_reg of the system-status
\* register (0x0A) in a chip-select window of its own, and the evaluation
\* reports ready exactly when (status & hrdy_mask) = hrdy_result.
C22_ReadinessSource ==
    /\ []((Evaluating /\ data.hrdy # PL_GPIO_NONE) =>
             (pc = "gh_entry" /\ cs = 1))
    /\ []((pc \in {"gh_entry", "gh_status"}) =>
             (cs = 1 /\ Head(stack) = "wi_test"))
    /\ [][Evaluating =>
            IF data.hrdy # PL_GPIO_NONE
            THEN ev' = Ev("hrdy", 0) /\ pc' = "wi_test" /\ cs' = 1
            ELSE CASE pc = "gh_entry" ->
                        /\ pc' = "rr_cs0"
                        /\ ev' = NoEv
                        /\ reg' = 10
                   [] pc = "gh_status" ->
                        /\ pc' = "wi_test"
                        /\ ev' = NoEv
                        /\ (ret' # 0) <=>
                             (BitAnd(val[1] * 256 + val[2], data.hrdy_mask)
                                = data.hrdy_result)
                   [] OTHER ->
                        /\ pc' = PollNext(pc)[1]
                        /\ ev' = PollNext(pc)[2] ]_vars

\* without a HRDY pin the second evaluation of a wait_idle has read a status
\* word that has the ready bit set
C22_Witness ==
    /\ pc = "wi_test"
    /\ data.hrdy = PL_GPIO_NONE
    /\ evals = 2
    /\ val = <<32, 0>>
    /\ ret = 1

\* C23 - whenever load_init_code has returned, the init-code file it opened
\* has been closed.
C23_InitCodeFileClosed ==
    Idle("load_init_code") => file = "closed"

====
